---- MODULE Spec2Model ----
(***************************************************************************)
(* A model of OpenSeadragon's DrawerBase (src/src/drawerbase.js): the      *)
(* constructor with its argument handling and override check, the          *)
(* viewport-to-drawer coordinate transforms, the canvas-size computation   *)
(* and the deprecated update() operation, together with the host           *)
(* environment they read (pixel density ratio, viewport, container).       *)
(*                                                                         *)
(* Numbers.  JavaScript numbers that carry fractions are kept in fixed     *)
(* point: logical lengths and viewport coordinates in tenths (800.4 is     *)
(* 8004), the pixel density ratio in tenths (2 is 20, 1.5 is 15).  A       *)
(* product of a length and a density is therefore in hundredths, and the   *)
(* transforms, which do not round, return hundredths.  Canvas width and    *)
(* height are whole device pixels.                                         *)
(*                                                                         *)
(* References.  Object references are strings; "null" stands for both      *)
(* null and undefined.  The options debugGridColor and opacity only pick   *)
(* a colour list and log a deprecation message; they are left out.         *)
(***************************************************************************)
EXTENDS Integers, Sequences, FiniteSets

VARIABLES
    supportsCanvas,     \* $.supportsCanvas
    pixelDensityRatio,  \* $.pixelDensityRatio, in tenths
    viewport,           \* the viewer's viewport object
    container,          \* the DOM element handed to the constructor
    drawer,             \* the instance the caller holds (state "none": no instance)
    calls,              \* clear/draw calls received during the current tick
    lastOp              \* the most recent operation and its outcome

vars == <<supportsCanvas, pixelDensityRatio, viewport, container, drawer, calls, lastOp>>

----------------------------------------------------------------------------
(* Bounds *)

\* How many surface elements the container may collect (one per construction).
MaxChildren == 2
\* How many tiled images the world holds at most (draw calls per tick).
MaxItems == 2

----------------------------------------------------------------------------
(* Input sets *)

Densities == {10, 15, 20}

ContainerSizes == { [x |-> 8004, y |-> 6006], [x |-> 1005, y |-> 25] }

\* Viewport pan/zoom states: the viewport-space origin shown at the top-left
\* of the container (tenths) and the zoom in pixels per viewport unit.
PanZooms == { [origin |-> [x |-> 0, y |-> 0], scale |-> 1],
              [origin |-> [x |-> 2, y |-> -3], scale |-> 7] }

Points == { [x |-> 3, y |-> -7], [x |-> 12, y |-> 5] }

Rects == { [x |-> 3, y |-> -7, width |-> 5, height |-> 11],
           [x |-> 0, y |-> 4, width |-> 1, height |-> 3] }

RequiredOps == {"draw", "canRotate", "destroy", "clear", "setImageSmoothingEnabled"}

ViewerRefs == {"null", "viewerCanvas", "viewerNoCanvas"}

\* What a caller may pass as the first argument: nothing, a plain options
\* object, or some other object (the legacy tile source), which may or may
\* not happen to carry a property named viewer.
NullArg == [kind |-> "null", viewer |-> "null", viewport |-> "null",
            element |-> "null", source |-> "null"]

PlainArgs == [kind : {"plain"}, viewer : ViewerRefs, viewport : {"null", "viewport"},
              element : {"null", "element"}, source : {"null"}]

InstanceArgs == [kind : {"instance"}, viewer : {"null", "viewerCanvas"},
                 viewport : {"null"}, element : {"null"}, source : {"null"}]

\* Argument lists: one options object, or the legacy positional form
\* (source, viewport, element).
ArgLists == { <<a0, "null", "null">> : a0 \in PlainArgs }
            \cup { <<a0, a1, a2>> : a0 \in {NullArg} \cup InstanceArgs,
                                    a1 \in {"null", "viewport"},
                                    a2 \in {"null", "element"} }

----------------------------------------------------------------------------
(* Messages *)

MsgViewerRequired == "[Drawer] options.viewer is required"
MsgViewportRequired == "[Drawer] options.viewport is required"
MsgElementRequired == "[Drawer] options.element is required"
MsgSourceNotAccepted == "[Drawer] options.source is no longer accepted; use TiledImage instead"
MsgUpdateDeprecated == "[Drawer.update] this function is deprecated. Use Drawer.clear and World.draw instead."

NoError == "none"
TypeError == "TypeError"

OverrideMessage(op) == "[drawer]." \o op \o " must be implemented by child class"

----------------------------------------------------------------------------
(* Helpers of the host library and platform *)

\* $.console.assert logs the message when the value is falsy and returns;
\* it does not throw (the constructor goes on to test this.viewer itself).
console_assert(value, msg) == IF value = "null" THEN {msg} ELSE {}

isPlainObject(a) == a.kind = "plain"

\* $.getElement returns an element argument unchanged.
getElement(element) == element

\* viewer.useCanvas
viewerUseCanvas(viewer) == viewer = "viewerCanvas"

\* Math.round on a value given in hundredths: the nearest integer, halves up.
MathRound(h) == (h + 50) \div 100

\* Viewport.pixelFromPointNoRotate(point, true), in tenths of a pixel.
pixelFromPointNoRotate(point) ==
    [x |-> (point.x - viewport.origin.x) * viewport.scale,
     y |-> (point.y - viewport.origin.y) * viewport.scale]

\* Viewport.deltaPixelsFromPointsNoRotate(delta, true), in tenths of a pixel.
deltaPixelsFromPointsNoRotate(delta) ==
    [x |-> delta.x * viewport.scale, y |-> delta.y * viewport.scale]

\* Viewport.getContainerSize()
getContainerSize == viewport.containerSize

\* Rect.getTopLeft() and Rect.getSize()
getTopLeft(rectangle) == [x |-> rectangle.x, y |-> rectangle.y]
getSize(rectangle) == [x |-> rectangle.width, y |-> rectangle.height]

----------------------------------------------------------------------------
(* DrawerBase.prototype *)

\* _checkForAPIOverrides with only the first four checks.
checkForAPIOverrides_fourOnly(overridden) ==
    IF "draw" \notin overridden THEN OverrideMessage("draw")
    ELSE IF "canRotate" \notin overridden THEN OverrideMessage("canRotate")
    ELSE IF "destroy" \notin overridden THEN OverrideMessage("destroy")
    ELSE IF "clear" \notin overridden THEN OverrideMessage("clear")
    ELSE NoError

\* _checkForAPIOverrides: the error thrown for an instance whose class
\* overrides the operations in `overridden`, or NoError.
checkForAPIOverrides(overridden) ==
    IF "draw" \notin overridden THEN OverrideMessage("draw")
    ELSE IF "canRotate" \notin overridden THEN OverrideMessage("canRotate")
    ELSE IF "destroy" \notin overridden THEN OverrideMessage("destroy")
    ELSE IF "clear" \notin overridden THEN OverrideMessage("clear")
    ELSE IF "setImageSmoothingEnabled" \notin overridden
         THEN OverrideMessage("setImageSmoothingEnabled")
    ELSE NoError

\* _calculateCanvasSize rounding the logical size before scaling it.
calculateCanvasSize_roundFirst ==
    [x |-> (MathRound(getContainerSize.x * 10) * pixelDensityRatio) \div 10,
     y |-> (MathRound(getContainerSize.y * 10) * pixelDensityRatio) \div 10]

\* _calculateCanvasSize, for a drawer whose viewport is set.
calculateCanvasSize ==
    [x |-> MathRound(getContainerSize.x * pixelDensityRatio),
     y |-> MathRound(getContainerSize.y * pixelDensityRatio)]

\* viewportToDrawerRectangle rounding its result to whole pixels.
viewportToDrawerRectangle_rounded(rectangle) ==
    LET topLeft == pixelFromPointNoRotate(getTopLeft(rectangle))
        size == deltaPixelsFromPointsNoRotate(getSize(rectangle))
    IN [x |-> MathRound(topLeft.x * pixelDensityRatio) * 100,
        y |-> MathRound(topLeft.y * pixelDensityRatio) * 100,
        width |-> MathRound(size.x * pixelDensityRatio) * 100,
        height |-> MathRound(size.y * pixelDensityRatio) * 100]

\* viewportToDrawerRectangle, in hundredths of a device pixel.
viewportToDrawerRectangle(rectangle) ==
    LET topLeft == pixelFromPointNoRotate(getTopLeft(rectangle))
        size == deltaPixelsFromPointsNoRotate(getSize(rectangle))
    IN [x |-> topLeft.x * pixelDensityRatio,
        y |-> topLeft.y * pixelDensityRatio,
        width |-> size.x * pixelDensityRatio,
        height |-> size.y * pixelDensityRatio]

\* viewportCoordToDrawerCoord, in hundredths of a device pixel.
viewportCoordToDrawerCoord(point) ==
    LET vpPoint == pixelFromPointNoRotate(point)
    IN [x |-> vpPoint.x * pixelDensityRatio,
        y |-> vpPoint.y * pixelDensityRatio]

\* The getter isOpenSeadragonDrawer on the prototype.
isOpenSeadragonDrawer == TRUE

----------------------------------------------------------------------------
(* The constructor *)

NoCanvas == [tag |-> "none", width |-> 0, height |-> 0]

NoDrawer == [state |-> "none", viewer |-> "null", viewport |-> "null",
             container |-> "null", useCanvas |-> FALSE, canvas |-> NoCanvas,
             imageSmoothingEnabled |-> FALSE]

\* The options object the constructor works with after its positional-args
\* branch: a plain first argument is used as it is, anything else is taken
\* as the legacy (source, viewport, element) call.
NormalizedOptions(args) ==
    IF isPlainObject(args[1]) THEN args[1]
    ELSE [kind |-> "plain", viewer |-> "null", viewport |-> args[2],
          element |-> args[3],
          source |-> IF args[1].kind = "null" THEN "null" ELSE "source"]

\* The outcome of a constructor call: the error thrown (or NoError), the
\* messages logged, the object under construction and the container as the
\* call leaves it.
Outcome(error, logged, this, cont) ==
    [error |-> error, logged |-> logged, this |-> this, container |-> cont]

\* The constructor's tail with the canvas axes swapped.
ConstructorTail_swappedAxes(logged, this, cont, overridden) ==
    IF this.useCanvas /\ this.viewport = "null"
    THEN Outcome(TypeError, logged, this, cont)
    ELSE
      LET sized == IF this.useCanvas
                   THEN [this EXCEPT !.canvas.width = calculateCanvasSize.y,
                                     !.canvas.height = calculateCanvasSize.x]
                   ELSE this
          cont2 == [cont EXCEPT !.textAlign = "left", !.children = @ + 1]
          done == [sized EXCEPT !.imageSmoothingEnabled = TRUE]
          err == checkForAPIOverrides(overridden)
      IN Outcome(err, logged,
                 IF err = NoError THEN [done EXCEPT !.state = "Constructed"] ELSE done,
                 cont2)

\* The constructor from the surface sizing on: `this` has viewer, viewport,
\* useCanvas, container and canvas set and the container's dir is forced.
ConstructorTail(logged, this, cont, overridden) ==
    IF this.useCanvas /\ this.viewport = "null"
    THEN Outcome(TypeError, logged, this, cont)
    ELSE
      LET sized == IF this.useCanvas
                   THEN [this EXCEPT !.canvas.width = calculateCanvasSize.x,
                                     !.canvas.height = calculateCanvasSize.y]
                   ELSE this
          cont2 == [cont EXCEPT !.textAlign = "left", !.children = @ + 1]
          done == [sized EXCEPT !.imageSmoothingEnabled = TRUE]
          err == checkForAPIOverrides(overridden)
      IN Outcome(err, logged,
                 IF err = NoError THEN [done EXCEPT !.state = "Constructed"] ELSE done,
                 cont2)

\* The constructor with the override check moved to the front.
DrawerBase_checkFirst(args, overridden) ==
    IF checkForAPIOverrides(overridden) # NoError
    THEN Outcome(checkForAPIOverrides(overridden), {}, NoDrawer, container)
    ELSE
      LET options == NormalizedOptions(args)
          useCanvas == supportsCanvas /\
                       (IF options.viewer # "null" THEN viewerUseCanvas(options.viewer) ELSE TRUE)
          this == [NoDrawer EXCEPT !.viewer = options.viewer, !.viewport = options.viewport,
                                   !.useCanvas = useCanvas, !.container = "element",
                                   !.canvas = [tag |-> IF useCanvas THEN "canvas" ELSE "div",
                                               width |-> 0, height |-> 0]]
      IN IF args[1].kind = "null" \/ options.element = "null"
         THEN Outcome(TypeError, {}, NoDrawer, container)
         ELSE ConstructorTail({}, this, [container EXCEPT !.dir = "ltr"], overridden)

\* $.DrawerBase called with `args` through a subclass overriding `overridden`.
DrawerBase(args, overridden) ==
    IF args[1].kind = "null"
    THEN \* options.viewer is read off undefined
         Outcome(TypeError, {}, NoDrawer, container)
    ELSE
      LET log1 == console_assert(args[1].viewer, MsgViewerRequired)
          options == NormalizedOptions(args)
          log2 == log1 \cup console_assert(options.viewport, MsgViewportRequired)
                       \cup console_assert(options.element, MsgElementRequired)
          log3 == log2 \cup (IF options.source # "null" THEN {MsgSourceNotAccepted} ELSE {})
          useCanvas == supportsCanvas /\
                       (IF options.viewer # "null" THEN viewerUseCanvas(options.viewer) ELSE TRUE)
          this == [NoDrawer EXCEPT !.viewer = options.viewer, !.viewport = options.viewport,
                                   !.useCanvas = useCanvas,
                                   !.container = getElement(options.element),
                                   !.canvas = [tag |-> IF useCanvas THEN "canvas" ELSE "div",
                                               width |-> 0, height |-> 0]]
      IN IF this.container = "null"
         THEN \* this.container.dir is written on undefined
              Outcome(TypeError, log3, this, container)
         ELSE ConstructorTail(log3, this, [container EXCEPT !.dir = "ltr"], overridden)

----------------------------------------------------------------------------
(* State machine *)

NoRet == [x |-> 0, y |-> 0]

\* The record of an operation: its name and arguments, what it returned,
\* the error it threw, what it logged, and whether it repeats the operation
\* recorded before it (same name, same arguments).
Op(name, args, overridden, ret, error, logged) ==
    [name |-> name, args |-> args, overridden |-> overridden, ret |-> ret,
     error |-> error, logged |-> logged,
     again |-> (lastOp.name = name /\ lastOp.args = args)]

Init ==
    /\ supportsCanvas \in BOOLEAN
    /\ pixelDensityRatio \in Densities
    /\ viewport \in [containerSize : ContainerSizes, origin : {pz.origin : pz \in PanZooms},
                     scale : {pz.scale : pz \in PanZooms}]
    /\ [origin |-> viewport.origin, scale |-> viewport.scale] \in PanZooms
    /\ container = [dir |-> "rtl", textAlign |-> "", children |-> 0]
    /\ drawer = NoDrawer
    /\ calls = << >>
    /\ lastOp = [name |-> "init", args |-> << >>, overridden |-> {}, ret |-> NoRet,
                 error |-> NoError, logged |-> {}, again |-> FALSE]

\* new Subclass(...): the subclass constructor calls $.DrawerBase with the
\* caller's arguments; the caller gets the instance only if nothing is thrown.
\* A failed construction is an uncaught exception that ends the caller's
\* turn; another attempt is made in a later turn, after some host event.
Construct ==
    /\ drawer.state = "none"
    /\ lastOp.name # "construct"
    /\ container.children < MaxChildren
    /\ \E args \in ArgLists, overridden \in SUBSET RequiredOps :
         LET out == DrawerBase(args, overridden)
         IN /\ drawer' = (IF out.error = NoError THEN out.this ELSE NoDrawer)
            /\ container' = out.container
            /\ lastOp' = Op("construct", args, overridden, NoRet, out.error, out.logged)
    /\ UNCHANGED <<supportsCanvas, pixelDensityRatio, viewport, calls>>

\* drawer.viewportToDrawerRectangle(rectangle) made to change the density it reads.
CallViewportToDrawerRectangle_impure ==
    /\ drawer.state = "Constructed"
    /\ drawer.viewport # "null"
    /\ \E rectangle \in Rects :
         lastOp' = Op("viewportToDrawerRectangle", <<rectangle>>, {},
                      viewportToDrawerRectangle(rectangle), NoError, {})
    /\ pixelDensityRatio' = 10
    /\ UNCHANGED <<supportsCanvas, viewport, container, drawer, calls>>

\* drawer.viewportToDrawerRectangle(rectangle)
CallViewportToDrawerRectangle ==
    /\ drawer.state = "Constructed"
    /\ \E rectangle \in Rects :
         lastOp' = IF drawer.viewport = "null"
                   THEN Op("viewportToDrawerRectangle", <<rectangle>>, {}, NoRet, TypeError, {})
                   ELSE Op("viewportToDrawerRectangle", <<rectangle>>, {},
                           viewportToDrawerRectangle(rectangle), NoError, {})
    /\ UNCHANGED <<supportsCanvas, pixelDensityRatio, viewport, container, drawer, calls>>

\* drawer.viewportCoordToDrawerCoord(point)
CallViewportCoordToDrawerCoord ==
    /\ drawer.state = "Constructed"
    /\ \E point \in Points :
         lastOp' = IF drawer.viewport = "null"
                   THEN Op("viewportCoordToDrawerCoord", <<point>>, {}, NoRet, TypeError, {})
                   ELSE Op("viewportCoordToDrawerCoord", <<point>>, {},
                           viewportCoordToDrawerCoord(point), NoError, {})
    /\ UNCHANGED <<supportsCanvas, pixelDensityRatio, viewport, container, drawer, calls>>

\* drawer._calculateCanvasSize()
CallCalculateCanvasSize ==
    /\ drawer.state = "Constructed"
    /\ lastOp' = IF drawer.viewport = "null"
                 THEN Op("_calculateCanvasSize", << >>, {}, NoRet, TypeError, {})
                 ELSE Op("_calculateCanvasSize", << >>, {}, calculateCanvasSize, NoError, {})
    /\ UNCHANGED <<supportsCanvas, pixelDensityRatio, viewport, container, drawer, calls>>

\* viewer.world.draw(): every item of the world is drawn through the drawer.
worldDraw(n) == [i \in 1..n |-> "draw"]

\* update() with the two calls in the other order.
updateCalls_drawFirst(n) ==
    IF drawer.viewer = "null" THEN << >> ELSE worldDraw(n) \o <<"clear">>

\* The backend calls update() makes, for a world of n items: this.clear(),
\* then this.viewer.world.draw(), which needs this.viewer.
updateCalls(n) ==
    <<"clear">> \o (IF drawer.viewer = "null" THEN << >> ELSE worldDraw(n))

\* drawer.update(), the deprecated one-call frame.
Update ==
    /\ drawer.state = "Constructed"
    /\ \E n \in 0..MaxItems :
         /\ calls' = updateCalls(n)
         /\ lastOp' = Op("update", <<n>>, {}, NoRet,
                         IF drawer.viewer = "null" THEN TypeError ELSE NoError,
                         {MsgUpdateDeprecated})
    /\ UNCHANGED <<supportsCanvas, pixelDensityRatio, viewport, container, drawer>>

\* One render-loop tick of the owning viewer: clear(), then draw(item) for
\* every visible item.
ViewerTick ==
    /\ drawer.state = "Constructed"
    /\ \E n \in 0..MaxItems :
         /\ calls' = <<"clear">> \o worldDraw(n)
         /\ lastOp' = Op("tick", <<n>>, {}, NoRet, NoError, {})
    /\ UNCHANGED <<supportsCanvas, pixelDensityRatio, viewport, container, drawer>>

\* destroy() reopening a destroyed backend.
Destroy_toggles ==
    /\ drawer.state \in {"Constructed", "Destroyed"}
    /\ drawer' = [drawer EXCEPT !.state = IF @ = "Destroyed" THEN "Constructed" ELSE "Destroyed"]
    /\ lastOp' = Op("destroy", <<drawer.state>>, {}, NoRet, NoError, {})
    /\ UNCHANGED <<supportsCanvas, pixelDensityRatio, viewport, container, calls>>

\* destroy() as a concrete backend overrides it: the backend is released;
\* a further call changes nothing.
Destroy ==
    /\ drawer.state \in {"Constructed", "Destroyed"}
    /\ drawer' = [drawer EXCEPT !.state = "Destroyed"]
    /\ lastOp' = Op("destroy", <<drawer.state>>, {}, NoRet, NoError, {})
    /\ UNCHANGED <<supportsCanvas, pixelDensityRatio, viewport, container, calls>>

\* The host changes the display's pixel density ratio.
SetPixelDensityRatio ==
    /\ \E d \in Densities \ {pixelDensityRatio} :
         /\ pixelDensityRatio' = d
         /\ lastOp' = Op("setPixelDensityRatio", <<d>>, {}, NoRet, NoError, {})
    /\ UNCHANGED <<supportsCanvas, viewport, container, drawer, calls>>

\* The host resizes the container; the viewport reports the new size.
ResizeContainer ==
    /\ \E size \in ContainerSizes \ {viewport.containerSize} :
         /\ viewport' = [viewport EXCEPT !.containerSize = size]
         /\ lastOp' = Op("resizeContainer", <<size>>, {}, NoRet, NoError, {})
    /\ UNCHANGED <<supportsCanvas, pixelDensityRatio, container, drawer, calls>>

\* The viewer pans or zooms the viewport.
PanZoom ==
    /\ \E pz \in PanZooms \ {[origin |-> viewport.origin, scale |-> viewport.scale]} :
         /\ viewport' = [viewport EXCEPT !.origin = pz.origin, !.scale = pz.scale]
         /\ lastOp' = Op("panZoom", <<pz>>, {}, NoRet, NoError, {})
    /\ UNCHANGED <<supportsCanvas, pixelDensityRatio, container, drawer, calls>>

\* The resize observer of a canvas backend: the surface takes the size
\* _calculateCanvasSize computes.
ResizeObserved ==
    /\ drawer.state = "Constructed"
    /\ drawer.useCanvas
    /\ drawer.viewport # "null"
    /\ drawer' = [drawer EXCEPT !.canvas.width = calculateCanvasSize.x,
                                !.canvas.height = calculateCanvasSize.y]
    /\ lastOp' = Op("resizeObserved", << >>, {}, NoRet, NoError, {})
    /\ UNCHANGED <<supportsCanvas, pixelDensityRatio, viewport, container, calls>>

Next ==
    \/ Construct
    \/ CallViewportToDrawerRectangle
    \/ CallViewportCoordToDrawerCoord
    \/ CallCalculateCanvasSize
    \/ Update
    \/ ViewerTick
    \/ Destroy
    \/ SetPixelDensityRatio
    \/ ResizeContainer
    \/ PanZoom
    \/ ResizeObserved

Spec == Init /\ [][Next]_vars

----------------------------------------------------------------------------
(* Properties *)

OverrideErrors == { OverrideMessage(op) : op \in RequiredOps }

TransformNames == {"viewportToDrawerRectangle", "viewportCoordToDrawerCoord",
                   "_calculateCanvasSize"}

\* The constructor call gets as far as the override check: it has a first
\* argument, an element, and a viewport if the surface is a canvas.
ReachesOverrideCheck(args) ==
    /\ args[1].kind # "null"
    /\ NormalizedOptions(args).element # "null"
    /\ \/ NormalizedOptions(args).viewport # "null"
       \/ ~supportsCanvas
       \/ NormalizedOptions(args).viewer = "viewerNoCanvas"

\* A required reference is missing from the call.
MissingReference(args) ==
    \/ args[1].kind = "null"
    \/ NormalizedOptions(args).viewer = "null"
    \/ NormalizedOptions(args).viewport = "null"
    \/ NormalizedOptions(args).element = "null"

C2_MissingReferenceFails ==
    (lastOp.name = "construct" /\ MissingReference(lastOp.args)) =>
        /\ lastOp.error # NoError
        /\ drawer.state = "none"

\* C3 as stated: in every state of a constructed canvas backend the canvas
\* width and height are round(w*d) and round(h*d) for the container's
\* current size and the current density.
C3_AlwaysSized ==
    (drawer.state = "Constructed" /\ drawer.useCanvas) =>
        /\ drawer.canvas.width = (viewport.containerSize.x * pixelDensityRatio + 50) \div 100
        /\ drawer.canvas.height = (viewport.containerSize.y * pixelDensityRatio + 50) \div 100

\* C3 (amended): when construction of a canvas backend completes, and when
\* the resize observer has recomputed the surface, the canvas width and
\* height are round(w*d) and round(h*d) for the container size and density
\* of that moment.
C3_SizedWhenComputed ==
    (drawer.state = "Constructed" /\ drawer.useCanvas
        /\ lastOp.name \in {"construct", "resizeObserved"}) =>
        /\ drawer.canvas.width = (viewport.containerSize.x * pixelDensityRatio + 50) \div 100
        /\ drawer.canvas.height = (viewport.containerSize.y * pixelDensityRatio + 50) \div 100

C3_Witness ==
    /\ drawer.state = "Constructed"
    /\ drawer.useCanvas
    /\ lastOp.name = "construct"
    /\ viewport.containerSize = [x |-> 1005, y |-> 25]
    /\ pixelDensityRatio = 15
    /\ drawer.canvas.width = 151
    /\ drawer.canvas.height = 4

\* C4: destroy() on a destroyed backend raises no error and changes nothing,
\* destroy() always ends in Destroyed, and no step takes a destroyed backend
\* back to Constructed.
C4_DestroyedIsTerminal ==
    [][ /\ drawer.state = "Destroyed" =>
              (drawer' = drawer /\ lastOp'.error = NoError)
        /\ lastOp'.name = "destroy" =>
              (drawer'.state = "Destroyed" /\ lastOp'.error = NoError) ]_vars

C4_Witness ==
    /\ lastOp.name = "destroy"
    /\ lastOp.args = <<"Destroyed">>
    /\ lastOp.error = NoError
    /\ drawer.state = "Destroyed"

\* C5: of the calls a backend receives in one tick, only the first can be
\* clear(), so clear() precedes every draw() and no second clear() follows;
\* update() calls clear() once, first, and only then the world's draw.
C5_ClearPrecedesDraws ==
    /\ \A i \in 1..Len(calls) : calls[i] = "clear" => i = 1
    /\ lastOp.name = "update" =>
          /\ Len(calls) >= 1
          /\ calls[1] = "clear"
          /\ \A i \in 2..Len(calls) : calls[i] = "draw"
          /\ lastOp.error = NoError => Len(calls) = 1 + lastOp.args[1]

C5_Witness ==
    /\ lastOp.name = "update"
    /\ lastOp.error = NoError
    /\ calls = <<"clear", "draw", "draw">>

\* The result of a transform is the viewport's projection times the density
\* of the state the call was made in, component by component, unrounded.
C6_ResultIsProjectionTimesDensity ==
    /\ (lastOp.name = "viewportToDrawerRectangle" /\ lastOp.error = NoError) =>
          LET r == lastOp.args[1] IN
          /\ lastOp.ret.x = (r.x - viewport.origin.x) * viewport.scale * pixelDensityRatio
          /\ lastOp.ret.y = (r.y - viewport.origin.y) * viewport.scale * pixelDensityRatio
          /\ lastOp.ret.width = r.width * viewport.scale * pixelDensityRatio
          /\ lastOp.ret.height = r.height * viewport.scale * pixelDensityRatio
    /\ (lastOp.name = "viewportCoordToDrawerCoord" /\ lastOp.error = NoError) =>
          LET p == lastOp.args[1] IN
          /\ lastOp.ret.x = (p.x - viewport.origin.x) * viewport.scale * pixelDensityRatio
          /\ lastOp.ret.y = (p.y - viewport.origin.y) * viewport.scale * pixelDensityRatio

\* A step that doubles the density and leaves the viewport alone doubles
\* every component of every transform's result.
C6_DoublingStep ==
    (pixelDensityRatio' = 2 * pixelDensityRatio /\ viewport' = viewport) =>
        /\ \A r \in Rects :
              /\ viewportToDrawerRectangle(r)'.x = 2 * viewportToDrawerRectangle(r).x
              /\ viewportToDrawerRectangle(r)'.y = 2 * viewportToDrawerRectangle(r).y
              /\ viewportToDrawerRectangle(r)'.width = 2 * viewportToDrawerRectangle(r).width
              /\ viewportToDrawerRectangle(r)'.height = 2 * viewportToDrawerRectangle(r).height
        /\ \A p \in Points :
              /\ viewportCoordToDrawerCoord(p)'.x = 2 * viewportCoordToDrawerCoord(p).x
              /\ viewportCoordToDrawerCoord(p)'.y = 2 * viewportCoordToDrawerCoord(p).y

\* C6: viewportToDrawerRectangle and viewportCoordToDrawerCoord return the
\* viewport's rotation-ignoring projection multiplied component by component
\* by the density current at the call, unrounded; doubling the density with
\* the viewport fixed doubles position and size of the result.
C6_LinearInDensity ==
    []C6_ResultIsProjectionTimesDensity /\ [][C6_DoublingStep]_vars

C6_Witness ==
    /\ lastOp.name = "viewportToDrawerRectangle"
    /\ lastOp.error = NoError
    /\ pixelDensityRatio = 15
    /\ viewport.scale = 7
    /\ lastOp.ret.x % 100 # 0
    /\ lastOp.ret.width % 100 # 0

\* C7: a call of viewportToDrawerRectangle, viewportCoordToDrawerCoord or
\* _calculateCanvasSize leaves the viewport, the density, the container and
\* the backend as they were, and a call repeated with the same argument
\* returns what the call before it returned.
C7_TransformsArePure ==
    [][ lastOp'.name \in TransformNames =>
          /\ UNCHANGED <<supportsCanvas, pixelDensityRatio, viewport, container, drawer, calls>>
          /\ lastOp'.again => (lastOp'.ret = lastOp.ret /\ lastOp'.error = lastOp.error) ]_vars

C7_Witness ==
    /\ lastOp.name = "viewportToDrawerRectangle"
    /\ lastOp.again
    /\ lastOp.error = NoError
    /\ pixelDensityRatio = 15

\* C8: _calculateCanvasSize returns, on each axis by itself, the integer
\* nearest to the container's logical size times the density; a container of
\* (800.4, 600.6) at density 2 gives (1601, 1201).
C8_ScaledThenRounded ==
    (lastOp.name = "_calculateCanvasSize" /\ lastOp.error = NoError) =>
        LET px == viewport.containerSize.x * pixelDensityRatio
            py == viewport.containerSize.y * pixelDensityRatio
        IN /\ 100 * lastOp.ret.x - 50 <= px /\ px <= 100 * lastOp.ret.x + 50
           /\ 100 * lastOp.ret.y - 50 <= py /\ py <= 100 * lastOp.ret.y + 50
           /\ (viewport.containerSize = [x |-> 8004, y |-> 6006] /\ pixelDensityRatio = 20)
                 => lastOp.ret = [x |-> 1601, y |-> 1201]

C8_Witness ==
    /\ lastOp.name = "_calculateCanvasSize"
    /\ lastOp.error = NoError
    /\ viewport.containerSize = [x |-> 8004, y |-> 6006]
    /\ pixelDensityRatio = 20
    /\ lastOp.ret = [x |-> 1601, y |-> 1201]

\* The options object a legacy call (source, viewport, element) stands for.
EquivalentConfig(args) == << NormalizedOptions(args), "null", "null" >>

\* C9: a positional call is validated as the equivalent options-object call
\* is (same error, same messages) and gives a backend with the same viewer,
\* viewport and container.
C9_PositionalAsConfig ==
    (lastOp.name = "construct" /\ ~isPlainObject(lastOp.args[1])) =>
        LET same == DrawerBase(EquivalentConfig(lastOp.args), lastOp.overridden)
        IN /\ lastOp.error = same.error
           /\ lastOp.logged = same.logged
           /\ lastOp.error = NoError =>
                 /\ drawer.viewer = same.this.viewer
                 /\ drawer.viewport = same.this.viewport
                 /\ drawer.container = same.this.container

\* C10: a construction that fails on the override check has by then forced
\* the container's direction to ltr, set its text alignment to left and
\* appended exactly one surface element to it; the caller gets no instance.
C10_ContainerModifiedBeforeCheck ==
    [][ (lastOp'.name = "construct" /\ lastOp'.error \in OverrideErrors) =>
          /\ container'.dir = "ltr"
          /\ container'.textAlign = "left"
          /\ container'.children = container.children + 1
          /\ drawer'.state = "none" ]_vars

C10_Witness ==
    /\ lastOp.name = "construct"
    /\ lastOp.error = OverrideMessage("draw")
    /\ container = [dir |-> "ltr", textAlign |-> "left", children |-> 2]
    /\ drawer.state = "none"

====
